---- MODULE Spec2Model ----
(***************************************************************************)
(* Assignment submission portal (src/app.py): the relational store         *)
(* (users, assignments, submissions), the upload directory and the         *)
(* request handlers that change them.                                      *)
(*                                                                         *)
(* Text (a form field, a file name, a column of type TEXT) is a sequence    *)
(* of tokens, each a whitespace character, another character or a word     *)
(* without whitespace, so that str.strip(), str.lower() and rsplit(".")    *)
(* are computed, not assumed.                                              *)
(*                                                                         *)
(* Flask's session is a signed cookie kept by the browser: the server      *)
(* holds no session table.  A request therefore carries either no session  *)
(* or the session some earlier login issued for a user of the users table; *)
(* the handlers below take the request's session as a parameter.           *)
(***************************************************************************)
EXTENDS Integers, Sequences, FiniteSets, TLC

VARIABLES
    users,        \* table users: id -> row
    assignments,  \* table assignments: id -> row
    submissions,  \* table submissions: id -> row
    seq_sub,      \* sqlite_sequence of submissions (AUTOINCREMENT): last id issued
    uuids,        \* number of uuid4() values drawn so far
    files,        \* names of the files present in UPLOAD_DIR
    login_logs,   \* table login_logs, in order of insertion
    session,      \* the session cookie the browser holds
    inflight,     \* the uploads being handled, each at a statement of the handler
    last          \* the last request handled and its outcome (flash message)

vars == <<users, assignments, submissions, seq_sub, uuids, files, login_logs,
          session, inflight, last>>

(***************************************************************************)
(* Bounds of the model.                                                    *)
(***************************************************************************)
\* submissions rows inserted in one behaviour
MaxSubs == 2

\* login_logs rows inserted in one behaviour
MaxLogins == 2

(***************************************************************************)
(* Text helpers                                                            *)
(***************************************************************************)
\* characters str.strip() removes
Whitespace == {" ", "\t", "\n"}

RECURSIVE LStrip(_)
LStrip(s) == IF s # <<>> /\ Head(s) \in Whitespace THEN LStrip(Tail(s)) ELSE s

RECURSIVE RStrip(_)
RStrip(s) ==
    IF s # <<>> /\ s[Len(s)] \in Whitespace
    THEN RStrip(SubSeq(s, 1, Len(s) - 1))
    ELSE s

\* a strip that leaves trailing whitespace
Strip_LeftOnly(s) == LStrip(s)

\* str.strip()
Strip(s) == RStrip(LStrip(s))

\* str.lower() on the characters (and the words) the model uses
LowerChar(c) ==
    CASE c = "P" -> "p"
      [] c = "D" -> "d"
      [] c = "F" -> "f"
      [] c = "Arun@Student.edu" -> "arun@student.edu"
      [] c = "OLD@college.edu" -> "old@college.edu"
      [] c = "New@Student.edu" -> "new@student.edu"
      [] OTHER -> c

Lower(s) == [i \in 1..Len(s) |-> LowerChar(s[i])]

\* index of the last "." of s, 0 when there is none
LastDot(s) ==
    LET dots == {i \in 1..Len(s) : s[i] = "."}
    IN  IF dots = {} THEN 0 ELSE CHOOSE i \in dots : \A j \in dots : j <= i

ALLOWED_EXTENSIONS == {<<"p", "d", "f">>}

allowed_file(filename) ==
    /\ LastDot(filename) # 0
    /\ Lower(SubSeq(filename, LastDot(filename) + 1, Len(filename)))
           \in ALLOWED_EXTENSIONS

\* the first four bytes of the stream
Head4(content) ==
    SubSeq(content, 1, IF Len(content) < 4 THEN Len(content) ELSE 4)

\* is_pdf_content that accepts any content
is_pdf_content_Any(content) == TRUE

is_pdf_content(content) == Head4(content) = <<"%", "P", "D", "F">>

(***************************************************************************)
(* werkzeug.utils.secure_filename on the characters the model uses: path   *)
(* separators become whitespace, whitespace runs are joined with "_",      *)
(* and leading and trailing "." and "_" are stripped.                      *)
(***************************************************************************)
SepToSpace(s) == [i \in 1..Len(s) |-> IF s[i] = "/" THEN " " ELSE s[i]]

RECURSIVE JoinWords(_)
JoinWords(s) ==
    IF s = <<>> THEN <<>>
    ELSE IF Head(s) \in Whitespace
         THEN LET rest == LStrip(s)
              IN  IF rest = <<>> THEN <<>> ELSE <<"_">> \o JoinWords(rest)
         ELSE <<Head(s)>> \o JoinWords(Tail(s))

RECURSIVE LStripDots(_)
LStripDots(s) ==
    IF s # <<>> /\ Head(s) \in {".", "_"} THEN LStripDots(Tail(s)) ELSE s

RECURSIVE RStripDots(_)
RStripDots(s) ==
    IF s # <<>> /\ s[Len(s)] \in {".", "_"}
    THEN RStripDots(SubSeq(s, 1, Len(s) - 1))
    ELSE s

secure_filename(filename) ==
    RStripDots(LStripDots(JoinWords(Strip(SepToSpace(filename)))))

(***************************************************************************)
(* Dates and times.  The text of a date and time is the sequence of its    *)
(* fields and separators; datetime.strptime reads it against a format, the *)
(* sequence of the format's directives and literals.                       *)
(***************************************************************************)
\* int() of a field, -1 when the token is not a number
Num(token) ==
    CASE token = "00" -> 0
      [] token = "01" -> 1
      [] token = "02" -> 2
      [] token = "03" -> 3
      [] token = "3" -> 3
      [] token = "05" -> 5
      [] token = "10" -> 10
      [] token = "12" -> 12
      [] token = "13" -> 13
      [] token = "14" -> 14
      [] token = "20" -> 20
      [] token = "23" -> 23
      [] token = "24" -> 24
      [] token = "30" -> 30
      [] token = "59" -> 59
      [] token = "60" -> 60
      [] token = "2026" -> 2026
      [] OTHER -> -1

\* the zero-padded text of a field, as strftime writes it
Pad(n) ==
    CASE n = 0 -> "00"
      [] n = 1 -> "01"
      [] n = 2 -> "02"
      [] n = 3 -> "03"
      [] n = 5 -> "05"
      [] n = 10 -> "10"
      [] n = 12 -> "12"
      [] n = 14 -> "14"
      [] n = 20 -> "20"
      [] n = 23 -> "23"
      [] n = 30 -> "30"
      [] n = 59 -> "59"
      [] n = 2026 -> "2026"
      [] OTHER -> "??"

Directives == {"%Y", "%m", "%d", "%H", "%M", "%S"}

\* days of the month, for the datetime constructor
DaysIn(year, month) ==
    IF month = 2
    THEN (IF year % 4 = 0 /\ (year % 100 # 0 \/ year % 400 = 0) THEN 29 ELSE 28)
    ELSE IF month \in {4, 6, 9, 11} THEN 30 ELSE 31

\* the value of parse_dt when no format fits, and of a failed strptime
None == [ok |-> FALSE]

\* the field of `value` the directive stands for; the default when the format
\* has no such directive
FieldOf(value, fmt, directive, default) ==
    LET at == {k \in 1..Len(fmt) : fmt[k] = directive}
    IN  IF at = {} THEN default ELSE Num(value[CHOOSE k \in at : TRUE])

\* datetime.strptime(value, fmt): None stands for ValueError
strptime(value, fmt) ==
    IF Len(value) # Len(fmt) THEN None
    ELSE IF \E k \in 1..Len(fmt) : fmt[k] \notin Directives /\ value[k] # fmt[k]
    THEN None
    ELSE LET dt == [ok |-> TRUE,
                    year |-> FieldOf(value, fmt, "%Y", 1900),
                    month |-> FieldOf(value, fmt, "%m", 1),
                    day |-> FieldOf(value, fmt, "%d", 1),
                    hour |-> FieldOf(value, fmt, "%H", 0),
                    minute |-> FieldOf(value, fmt, "%M", 0),
                    second |-> FieldOf(value, fmt, "%S", 0)]
         IN  IF /\ dt.year >= 1
                /\ dt.month \in 1..12
                /\ dt.day \in 1..DaysIn(dt.year, dt.month)
                /\ dt.hour \in 0..23
                /\ dt.minute \in 0..59
                /\ dt.second \in 0..59
             THEN dt ELSE None

\* "%Y-%m-%d %H:%M:%S"
FmtSeconds ==
    <<"%Y", "-", "%m", "-", "%d", " ", "%H", ":", "%M", ":", "%S">>

\* "%Y-%m-%d %H:%M"
FmtMinutes == <<"%Y", "-", "%m", "-", "%d", " ", "%H", ":", "%M">>

\* "%Y-%m-%dT%H:%M", the format of an <input type="datetime-local">
FmtLocal == <<"%Y", "-", "%m", "-", "%d", "T", "%H", ":", "%M">>

parse_dt(value) ==
    IF strptime(value, FmtSeconds).ok THEN strptime(value, FmtSeconds)
    ELSE IF strptime(value, FmtMinutes).ok THEN strptime(value, FmtMinutes)
    ELSE None

\* dt.strftime("%Y-%m-%d %H:%M")
strftime(dt) ==
    <<Pad(dt.year), "-", Pad(dt.month), "-", Pad(dt.day), " ",
      Pad(dt.hour), ":", Pad(dt.minute)>>

\* the fields of a datetime, most significant first
Fields(dt) == <<dt.year, dt.month, dt.day, dt.hour, dt.minute, dt.second>>

\* a > b on datetime values: the first field that differs decides
After(a, b) ==
    \E k \in 1..6 : /\ Fields(a)[k] > Fields(b)[k]
                     /\ \A j \in 1..(k - 1) : Fields(a)[j] = Fields(b)[j]

\* the late flag with "not before" in place of "after"
Late_OrEqual(deadline, submitted_at) ==
    /\ parse_dt(deadline).ok
    /\ parse_dt(submitted_at).ok
    /\ ~After(parse_dt(deadline), parse_dt(submitted_at))

\* bool(dead and sub and sub > dead)
Late(deadline, submitted_at) ==
    /\ parse_dt(deadline).ok
    /\ parse_dt(submitted_at).ok
    /\ After(parse_dt(submitted_at), parse_dt(deadline))

(***************************************************************************)
(* SQLite compares a TEXT parameter with an INTEGER column by numeric      *)
(* affinity: the text of a number matches the number, any other text       *)
(* matches no id.                                                          *)
(***************************************************************************)
NoId == 0

SqlInt(text) ==
    CASE text = <<"1">> -> 1
      [] text = <<"2">> -> 2
      [] text = <<"3">> -> 3
      [] text = <<"4">> -> 4
      [] text = <<"9">> -> 9
      [] OTHER -> NoId

(***************************************************************************)
(* The store after init_db()                                               *)
(***************************************************************************)
\* generate_password_hash: a salted digest, tagged with its method
hash_password(password) == <<"scrypt:">> \o password

SeedUsers ==
    1 :> [name |-> <<"Dr. Priya Faculty">>, email |-> <<"faculty@college.edu">>,
          password |-> hash_password(<<"faculty123">>), role |-> "faculty"]
 @@ 2 :> [name |-> <<"Arun Student">>, email |-> <<"arun@student.edu">>,
          password |-> hash_password(<<"student123">>), role |-> "student"]
 @@ 3 :> [name |-> <<"Meena Student">>, email |-> <<"meena@student.edu">>,
          password |-> hash_password(<<"student123">>), role |-> "student"]
 @@ 4 :> [name |-> <<"Rahul Student">>, email |-> <<"rahul@student.edu">>,
          password |-> hash_password(<<"student123">>), role |-> "student"]

\* portal.db outlives the process (CREATE TABLE IF NOT EXISTS, INSERT OR
\* IGNORE): a deployment may hold rows the seed does not create, such as a
\* second faculty member whose password an earlier version stored in plain text
\* (verify_password's second branch).
LegacyUsers ==
    5 :> [name |-> <<"Old Faculty">>, email |-> <<"old@college.edu">>,
          password |-> <<"oldpass">>, role |-> "faculty"]

SeedAssignments ==
    1 :> [title |-> <<"Data Structures - Week 1">>,
          description |-> <<"Implement stack and queue operations with test cases.">>,
          deadline |-> <<"2026", "-", "03", "-", "05", " ", "23", ":", "59">>]
 @@ 2 :> [title |-> <<"Database Systems - Mini Project">>,
          description |-> <<"Design schema and SQL queries for library management.">>,
          deadline |-> <<"2026", "-", "03", "-", "10", " ", "23", ":", "59">>]
 @@ 3 :> [title |-> <<"Operating Systems - Report">>,
          description |-> <<"Write report on process scheduling algorithms.">>,
          deadline |-> <<"2026", "-", "03", "-", "14", " ", "23", ":", "59">>]

\* reviewed_by of a row no faculty has reviewed (SQL NULL)
NULL == 0

(***************************************************************************)
(* Sessions and the login_required decorator                               *)
(***************************************************************************)
\* session after session.clear(), or of a browser that never logged in
NoSession == [k \in {} |-> ""]

\* SessionOf of a login that takes every user for a student
SessionOf_Student(id) ==
    [user_id |-> id, name |-> users[id].name, role |-> "student"]

\* the session login() stores for user id
SessionOf(id) ==
    [user_id |-> id, name |-> users[id].name, role |-> users[id].role]

\* users whose browsers send requests in the model
Browsers == {1, 2, 3, 5}

\* the sessions a request can carry
Sessions == {NoSession} \cup {SessionOf(id) : id \in Browsers \cap DOMAIN users}

\* login_required without the check of the role
login_required_AnyRole(sess, role) ==
    IF "user_id" \notin DOMAIN sess THEN "redirect:login" ELSE "ok"

\* role = "" stands for login_required() without a role
login_required(sess, role) ==
    IF "user_id" \notin DOMAIN sess THEN "redirect:login"
    ELSE IF role # "" /\ sess.role # role THEN "Access denied for your role."
    ELSE "ok"

UserId(sess) == IF "user_id" \in DOMAIN sess THEN sess.user_id ELSE NULL

\* now_text(): a reading of the wall clock as "%Y-%m-%d %H:%M:%S", the fields
\* and the separators being the tokens of the text.  A handler is
\* given the reading the clock would return during the request.
Noon == <<"2026", "-", "03", "-", "05", " ", "12", ":", "00", ":", "00">>

Times ==
    {Noon, <<"2026", "-", "03", "-", "05", " ", "23", ":", "59", ":", "01">>}

(***************************************************************************)
(* Tables                                                                  *)
(***************************************************************************)
Pending == <<"Pending">>
Approved == <<"Approved">>
Rejected == <<"Rejected">>

\* DELETE FROM submissions WHERE id = ?
DeleteRow(table, id) == [i \in DOMAIN table \ {id} |-> table[i]]

\* INSERT INTO submissions (student_id, assignment_id, file_name, submitted_at):
\* the other columns take the defaults of the schema
NewSubmission(student_id, assignment_id, file_name, submitted_at) ==
    [student_id |-> student_id, assignment_id |-> assignment_id,
     file_name |-> file_name, submitted_at |-> submitted_at,
     status |-> Pending, faculty_comment |-> <<>>, reviewed_at |-> <<>>,
     reviewed_by |-> NULL]

\* OldPending without student_id = ?
OldPending_AnyStudent(table, student_id, assignment_id) ==
    {i \in DOMAIN table :
        /\ table[i].assignment_id = assignment_id
        /\ table[i].status = Pending}

\* OldPending without AND status = 'Pending'
OldPending_AnyStatus(table, student_id, assignment_id) ==
    {i \in DOMAIN table :
        /\ table[i].student_id = student_id
        /\ table[i].assignment_id = assignment_id}

\* SELECT * FROM submissions WHERE student_id = ? AND assignment_id = ?
\*   AND status = 'Pending'
OldPending(table, student_id, assignment_id) ==
    {i \in DOMAIN table :
        /\ table[i].student_id = student_id
        /\ table[i].assignment_id = assignment_id
        /\ table[i].status = Pending}

\* FinalName without uuid4().hex
FinalName_NoUuid(student_id, assignment_text, uuid, safe_name) ==
    <<student_id, assignment_text, 0, safe_name>>

\* f"{student_id}_{assignment_id}_{uuid4().hex}_{safe_name}"
FinalName(student_id, assignment_text, uuid, safe_name) ==
    <<student_id, assignment_text, uuid, safe_name>>

\* request.files.get("pdf_file") when the form has no such part
NoFile == [filename |-> <<>>, content |-> <<>>, present |-> FALSE]

Upload(filename, content) ==
    [filename |-> filename, content |-> content, present |-> TRUE]

\* the form of POST /student
Form(assignment_id, file) == [assignment_id |-> assignment_id, file |-> file]

\* What `last` keeps of a request: the operation; the session's user; the
\* submission id the request names or creates; the users row it logs in or
\* creates; the upload form, or the file name of a download, as sent, or the
\* fields of another form as the handler reads them; the
\* fields action and comment as the handler reads them (stripped) and the
\* comment as the form sent it; the reading of the clock the handler stored
\* (empty when it stored none); the status the named row had before the request;
\* the Pending row an upload replaced; whether os.remove found the file
\* missing; and the outcome (the flash message).
Request(op, sess) ==
    [op |-> op, user |-> UserId(sess), id |-> NoId, account |-> NoId,
     form |-> <<>>,
     action |-> <<>>, comment |-> <<>>, form_comment |-> <<>>, now |-> <<>>,
     was |-> <<>>, old |-> NoId, missing |-> FALSE, result |-> ""]

\* before any request
NoRequest == Request("none", NoSession)

(***************************************************************************)
(* POST /student: student_dashboard                                        *)
(***************************************************************************)
\* the flash message of the first check that fails, "ok" when none does
SubmitCheck(sess, assignment_id, file) ==
    IF login_required(sess, "student") # "ok" THEN login_required(sess, "student")
    ELSE IF assignment_id = <<>> THEN "Please select an assignment."
    ELSE IF ~file.present \/ file.filename = <<>> THEN "Please choose a PDF file."
    ELSE IF ~allowed_file(file.filename) THEN "Only PDF files are allowed."
    ELSE IF ~is_pdf_content(file.content)
         THEN "Invalid file content. Please upload a valid PDF."
    ELSE IF SqlInt(assignment_id) \notin DOMAIN assignments
         THEN "Assignment not found."
    ELSE "ok"

\* FetchOld without the lookup: the old row is never found, so never replaced
FetchOld_Never(student_id, assignment_id) == {NoId}

\* fetchone() of the old Pending rows: one of them, NoId when there is none
FetchOld(student_id, assignment_id) ==
    IF OldPending(submissions, student_id, assignment_id) = {} THEN {NoId}
    ELSE OldPending(submissions, student_id, assignment_id)

\* the ledger after the old Pending row (if any) is deleted
AfterOld(old) == IF old = NoId THEN submissions ELSE DeleteRow(submissions, old)

\* FilesAfterOld without the os.remove
FilesAfterOld_Keep(old) == files

\* the upload directory after os.remove of the old row's file (if any)
FilesAfterOld(old) ==
    IF old = NoId THEN files ELSE files \ {submissions[old].file_name}

SubmitPost(sess, form_assignment_id, file, now) ==
    LET assignment_id == Strip(form_assignment_id)
        check == SubmitCheck(sess, assignment_id, file)
        request == [Request("submit", sess) EXCEPT
                       !.form = Form(form_assignment_id, file)]
    IN  IF check # "ok"
        THEN /\ last' = [request EXCEPT !.result = check]
             /\ UNCHANGED <<users, assignments, submissions, seq_sub, uuids, files>>
        ELSE \E old \in FetchOld(sess.user_id, SqlInt(assignment_id)) :
             LET final_name == FinalName(sess.user_id, assignment_id, uuids + 1,
                                         secure_filename(file.filename))
             IN  /\ uuids' = uuids + 1
                 /\ files' = FilesAfterOld(old) \cup {final_name}
                 /\ seq_sub' = seq_sub + 1
                 /\ submissions' =
                        (seq_sub + 1) :> NewSubmission(sess.user_id,
                                             SqlInt(assignment_id), final_name, now)
                        @@ AfterOld(old)
                 /\ last' = [request EXCEPT
                                !.id = seq_sub + 1, !.now = now, !.old = old,
                                !.missing = (old # NoId /\
                                    submissions[old].file_name \notin files),
                                !.result = "Assignment submitted successfully."]
                 /\ UNCHANGED <<users, assignments>>

(***************************************************************************)
(* POST /student, statement by statement.  app.run() serves each request   *)
(* in a thread of its own, and get_db() gives each request a connection of *)
(* its own.  A sqlite3 connection opens a transaction at its first DELETE  *)
(* or INSERT and keeps it until db.commit(); a SELECT reads the committed  *)
(* ledger and holds no lock once fetchone() has returned.  `submissions`   *)
(* and `seq_sub` are the committed ledger.                                 *)
(***************************************************************************)
\* the threads of the server that handle uploads
Threads == {1, 2}

\* a thread between requests
Idle ==
    [pc |-> "idle", sess |-> NoSession, form |-> Form(<<>>, NoFile),
     old |-> NoId, old_file |-> <<>>, missing |-> FALSE, name |-> <<>>,
     id |-> NoId, now |-> <<>>, writing |-> FALSE]

\* the threads whose connection holds an open write transaction
Writers == {t \in Threads : inflight[t].writing}

\* SQLite lets one connection write at a time
CanWrite(t) == Writers \subseteq {t}

\* CommittedAfterDelete of a connection in autocommit mode
CommittedAfterDelete_Autocommit(old) == DeleteRow(submissions, old)

\* the committed ledger after DELETE FROM submissions WHERE id = ? in the
\* connection's open transaction: other connections see no change
CommittedAfterDelete(old) == submissions

\* the checks of the handler, up to the lookup of the assignment
SubmitBegin(t, sess, form_assignment_id, file) ==
    LET assignment_id == Strip(form_assignment_id)
        check == SubmitCheck(sess, assignment_id, file)
    IN  /\ inflight[t].pc = "idle"
        /\ IF check # "ok"
           THEN /\ last' = [Request("submit", sess) EXCEPT
                               !.form = Form(form_assignment_id, file),
                               !.result = check]
                /\ UNCHANGED inflight
           ELSE /\ inflight' = [inflight EXCEPT ![t] =
                       [Idle EXCEPT !.pc = "lookup", !.sess = sess,
                                    !.form = Form(form_assignment_id, file)]]
                /\ UNCHANGED last
        /\ UNCHANGED <<users, assignments, submissions, seq_sub, uuids, files,
                       login_logs, session>>

\* old = db.execute("SELECT * FROM submissions WHERE ... 'Pending'").fetchone()
SubmitLookup(t) ==
    LET req == inflight[t]
    IN  /\ req.pc = "lookup"
        /\ \E old \in FetchOld(req.sess.user_id,
                               SqlInt(Strip(req.form.assignment_id))) :
               inflight' = [inflight EXCEPT ![t] =
                   [req EXCEPT !.pc = IF old = NoId THEN "save" ELSE "remove",
                               !.old = old,
                               !.old_file = IF old = NoId THEN <<>>
                                            ELSE submissions[old].file_name]]
        /\ UNCHANGED <<users, assignments, submissions, seq_sub, uuids, files,
                       login_logs, session, last>>

\* if os.path.exists(old_path): os.remove(old_path)
SubmitRemove(t) ==
    LET req == inflight[t]
    IN  /\ req.pc = "remove"
        /\ files' = files \ {req.old_file}
        /\ inflight' = [inflight EXCEPT ![t] =
               [req EXCEPT !.pc = "delete",
                           !.missing = (req.old_file \notin files)]]
        /\ UNCHANGED <<users, assignments, submissions, seq_sub, uuids,
                       login_logs, session, last>>

\* db.execute("DELETE FROM submissions WHERE id = ?", (old["id"],))
SubmitDelete(t) ==
    LET req == inflight[t]
    IN  /\ req.pc = "delete"
        /\ CanWrite(t)
        /\ submissions' = CommittedAfterDelete(req.old)
        /\ inflight' = [inflight EXCEPT ![t] =
               [req EXCEPT !.pc = "save", !.writing = TRUE]]
        /\ UNCHANGED <<users, assignments, seq_sub, uuids, files, login_logs,
                       session, last>>

\* file.save(os.path.join(UPLOAD_FOLDER, final_name))
SubmitSave(t) ==
    LET req == inflight[t]
        final_name == FinalName(req.sess.user_id, Strip(req.form.assignment_id),
                                uuids + 1,
                                secure_filename(req.form.file.filename))
    IN  /\ req.pc = "save"
        /\ uuids' = uuids + 1
        /\ files' = files \cup {final_name}
        /\ inflight' = [inflight EXCEPT ![t] =
               [req EXCEPT !.pc = "insert", !.name = final_name]]
        /\ UNCHANGED <<users, assignments, submissions, seq_sub, login_logs,
                       session, last>>

\* db.execute("INSERT INTO submissions ...", (..., now_text())): the row and
\* its AUTOINCREMENT id stay in the connection's transaction
SubmitInsert(t, now) ==
    LET req == inflight[t]
    IN  /\ req.pc = "insert"
        /\ CanWrite(t)
        /\ inflight' = [inflight EXCEPT ![t] =
               [req EXCEPT !.pc = "commit", !.id = seq_sub + 1, !.now = now,
                           !.writing = TRUE]]
        /\ UNCHANGED <<users, assignments, submissions, seq_sub, uuids, files,
                       login_logs, session, last>>

\* db.commit(): the DELETE (if any) and the INSERT reach the ledger at once
SubmitCommit(t) ==
    LET req == inflight[t]
    IN  /\ req.pc = "commit"
        /\ submissions' =
               req.id :> NewSubmission(req.sess.user_id,
                             SqlInt(Strip(req.form.assignment_id)),
                             req.name, req.now)
               @@ (IF req.old = NoId THEN submissions
                   ELSE DeleteRow(submissions, req.old))
        /\ seq_sub' = req.id
        /\ inflight' = [inflight EXCEPT ![t] = Idle]
        /\ last' = [Request("submit", req.sess) EXCEPT
                       !.form = req.form, !.id = req.id, !.now = req.now,
                       !.old = req.old, !.missing = req.missing,
                       !.result = "Assignment submitted successfully."]
        /\ UNCHANGED <<users, assignments, uuids, files, login_logs, session>>

\* the DELETE or INSERT of a connection that waited for the write lock longer
\* than the timeout of sqlite3.connect: OperationalError, the request ends
SubmitLocked(t) ==
    LET req == inflight[t]
    IN  /\ req.pc \in {"delete", "insert"}
        /\ ~CanWrite(t)
        /\ inflight' = [inflight EXCEPT ![t] = Idle]
        /\ last' = [Request("submit", req.sess) EXCEPT
                       !.form = req.form, !.old = req.old,
                       !.missing = req.missing,
                       !.result = "database is locked"]
        /\ UNCHANGED <<users, assignments, submissions, seq_sub, uuids, files,
                       login_logs, session>>

(***************************************************************************)
(* GET /student: the rows of "My Submissions" (the ORDER BY does not change *)
(* which rows are listed)                                                  *)
(***************************************************************************)
ListForStudent(student_id) ==
    {[id |-> i, file_name |-> submissions[i].file_name,
      submitted_at |-> submissions[i].submitted_at,
      status |-> submissions[i].status,
      faculty_comment |-> submissions[i].faculty_comment,
      reviewed_at |-> submissions[i].reviewed_at,
      title |-> assignments[submissions[i].assignment_id].title,
      deadline |-> assignments[submissions[i].assignment_id].deadline] :
        i \in {j \in DOMAIN submissions :
                  /\ submissions[j].student_id = student_id
                  /\ submissions[j].assignment_id \in DOMAIN assignments}}

\* submissions_view: each listed row with its late flag
SubmissionsView(student_id) ==
    {[row |-> r, late |-> Late(r.deadline, r.submitted_at)] :
        r \in ListForStudent(student_id)}

\* GET /student
StudentGet(sess) ==
    /\ last' = (IF login_required(sess, "student") # "ok"
                THEN [Request("list", sess) EXCEPT
                         !.result = login_required(sess, "student")]
                ELSE [Request("list", sess) EXCEPT
                         !.form = SubmissionsView(sess.user_id),
                         !.result = "render_page"])
    /\ UNCHANGED <<users, assignments, submissions, seq_sub, uuids, files,
                   login_logs, session, inflight>>

(***************************************************************************)
(* POST /delete-submission/<int:submission_id>: delete_submission          *)
(***************************************************************************)
\* OwnRow without AND student_id = ?
OwnRow_AnyOwner(submission_id, student_id) == submission_id \in DOMAIN submissions

\* SELECT * FROM submissions WHERE id = ? AND student_id = ?
OwnRow(submission_id, student_id) ==
    /\ submission_id \in DOMAIN submissions
    /\ submissions[submission_id].student_id = student_id

\* DeleteCheck of a handler whose os.remove is not guarded: a missing file
\* ends the request before the row is deleted
DeleteCheck_Unguarded(sess, submission_id) ==
    IF login_required(sess, "student") # "ok" THEN login_required(sess, "student")
    ELSE IF ~OwnRow(submission_id, sess.user_id) THEN "Submission not found."
    ELSE IF submissions[submission_id].status # Pending
         THEN "You can delete only pending submissions."
    ELSE IF submissions[submission_id].file_name \notin files
         THEN "500 Internal Server Error"
    ELSE "ok"

\* DeleteCheck without the check of the status
DeleteCheck_AnyStatus(sess, submission_id) ==
    IF login_required(sess, "student") # "ok" THEN login_required(sess, "student")
    ELSE IF ~OwnRow(submission_id, sess.user_id) THEN "Submission not found."
    ELSE "ok"

DeleteCheck(sess, submission_id) ==
    IF login_required(sess, "student") # "ok" THEN login_required(sess, "student")
    ELSE IF ~OwnRow(submission_id, sess.user_id) THEN "Submission not found."
    ELSE IF submissions[submission_id].status # Pending
         THEN "You can delete only pending submissions."
    ELSE "ok"

\* the status of row id, <<>> when there is no such row
StatusOf(id) ==
    IF id \in DOMAIN submissions THEN submissions[id].status ELSE <<>>

DeletePost(sess, submission_id) ==
    LET check == DeleteCheck(sess, submission_id)
        request == [Request("delete", sess) EXCEPT
                       !.id = submission_id, !.was = StatusOf(submission_id)]
    IN  IF check # "ok"
        THEN /\ last' = [request EXCEPT !.result = check]
             /\ UNCHANGED <<users, assignments, submissions, seq_sub, uuids, files>>
        ELSE /\ files' = files \ {submissions[submission_id].file_name}
             /\ submissions' = DeleteRow(submissions, submission_id)
             /\ last' = [request EXCEPT
                            !.missing =
                                (submissions[submission_id].file_name \notin files),
                            !.result = "Submission deleted."]
             /\ UNCHANGED <<users, assignments, seq_sub, uuids>>

(***************************************************************************)
(* POST /faculty with form_type = review: faculty_dashboard                *)
(***************************************************************************)
\* ReviewCheck without the check of the action
ReviewCheck_AnyAction(sess, submission_id, action) ==
    IF login_required(sess, "faculty") # "ok" THEN login_required(sess, "faculty")
    ELSE IF SqlInt(submission_id) \notin DOMAIN submissions
         THEN "Submission not found."
    ELSE "ok"

\* ReviewCheck that turns away a review of a reviewed submission
ReviewCheck_Once(sess, submission_id, action) ==
    IF login_required(sess, "faculty") # "ok" THEN login_required(sess, "faculty")
    ELSE IF action \notin {Approved, Rejected} THEN "Invalid action."
    ELSE IF SqlInt(submission_id) \notin DOMAIN submissions
         THEN "Submission not found."
    ELSE IF submissions[SqlInt(submission_id)].status # Pending
         THEN "Submission already reviewed."
    ELSE "ok"

ReviewCheck(sess, submission_id, action) ==
    IF login_required(sess, "faculty") # "ok" THEN login_required(sess, "faculty")
    ELSE IF action \notin {Approved, Rejected} THEN "Invalid action."
    ELSE IF SqlInt(submission_id) \notin DOMAIN submissions
         THEN "Submission not found."
    ELSE "ok"

\* f"Submission {action.lower()} successfully."
ReviewDone(action) ==
    IF action = Approved THEN "Submission approved successfully."
    ELSE "Submission rejected successfully."

\* ReviewUpdate that leaves reviewed_at as it was
ReviewUpdate_NoTime(row, action, comment, now, reviewer) ==
    [row EXCEPT !.status = action, !.faculty_comment = comment,
                !.reviewed_by = reviewer]

\* ReviewUpdate that leaves reviewed_by as it was
ReviewUpdate_NoReviewer(row, action, comment, now, reviewer) ==
    [row EXCEPT !.status = action, !.faculty_comment = comment,
                !.reviewed_at = now]

\* UPDATE submissions SET status, faculty_comment, reviewed_at, reviewed_by
\*   WHERE id = ?
ReviewUpdate(row, action, comment, now, reviewer) ==
    [row EXCEPT !.status = action, !.faculty_comment = comment,
                !.reviewed_at = now, !.reviewed_by = reviewer]

ReviewPost(sess, form_submission_id, form_action, form_comment, now) ==
    LET submission_id == Strip(form_submission_id)
        action == Strip(form_action)
        comment == Strip(form_comment)
        check == ReviewCheck(sess, submission_id, action)
        request == [Request("review", sess) EXCEPT
                       !.id = SqlInt(submission_id), !.action = action,
                       !.comment = comment, !.form_comment = form_comment,
                       !.was = StatusOf(SqlInt(submission_id))]
    IN  IF check # "ok"
        THEN /\ last' = [request EXCEPT !.result = check]
             /\ UNCHANGED <<users, assignments, submissions, seq_sub, uuids, files>>
        ELSE /\ submissions' =
                    [submissions EXCEPT ![SqlInt(submission_id)] =
                        ReviewUpdate(@, action, comment, now, sess.user_id)]
             /\ last' = [request EXCEPT !.now = now, !.result = ReviewDone(action)]
             /\ UNCHANGED <<users, assignments, seq_sub, uuids, files>>

(***************************************************************************)
(* GET /uploads/<path:filename>: download_file                             *)
(***************************************************************************)
\* SELECT student_id FROM submissions WHERE file_name = ?
RowsOfFile(filename) ==
    {i \in DOMAIN submissions : submissions[i].file_name = filename}

\* DownloadResult without the check of the student's ownership
DownloadResult_AnyStudent(sess, filename) ==
    IF login_required(sess, "") # "ok" THEN {login_required(sess, "")}
    ELSE IF RowsOfFile(filename) = {} THEN {"File not found."}
    ELSE {IF filename \in files THEN "send_from_directory" ELSE "404 Not Found"}

\* the outcome of a download request in the current state
DownloadResult(sess, filename) ==
    IF login_required(sess, "") # "ok" THEN {login_required(sess, "")}
    ELSE IF RowsOfFile(filename) = {} THEN {"File not found."}
    ELSE {IF sess.role = "student" /\ submissions[i].student_id # sess.user_id
          THEN "You are not allowed to access this file."
          ELSE IF filename \in files THEN "send_from_directory"
          ELSE "404 Not Found" : i \in RowsOfFile(filename)}

DownloadGet(sess, filename) ==
    /\ \E result \in DownloadResult(sess, filename) :
           last' = [Request("download", sess) EXCEPT
                       !.form = filename, !.result = result]
    /\ UNCHANGED <<users, assignments, submissions, seq_sub, uuids, files>>

(***************************************************************************)
(* POST /login: login                                                      *)
(***************************************************************************)
\* werkzeug's check_password_hash: the digest is that of the password
check_password_hash(stored, raw) == Tail(stored) = raw

verify_password(raw_password, stored_password) ==
    IF stored_password # <<>> /\ Head(stored_password) \in {"pbkdf2:", "scrypt:"}
    THEN [valid |-> check_password_hash(stored_password, raw_password),
          should_upgrade |-> FALSE]
    ELSE [valid |-> raw_password = stored_password, should_upgrade |-> TRUE]

\* LoginLookup by email alone
LoginLookup_AnyRole(email, role) ==
    {i \in DOMAIN users : users[i].email = email}

\* SELECT * FROM users WHERE email = ? AND role = ?
LoginLookup(email, role) ==
    {i \in DOMAIN users : users[i].email = email /\ <<users[i].role>> = role}

\* the fields of the login form as the handler reads them
Credentials(email, password, role) ==
    [email |-> email, password |-> password, role |-> role]

\* INSERT INTO login_logs without the insert
LogLogin_Never(id, now) == login_logs

\* INSERT INTO login_logs (user_id, login_time)
LogLogin(id, now) == Append(login_logs, [user_id |-> id, login_time |-> now])

\* UPDATE users SET password = ? WHERE id = ? without the update
Upgrade_Never(id, password) == users

\* UPDATE users SET password = ? WHERE id = ?
Upgrade(id, password) == [users EXCEPT ![id].password = hash_password(password)]

LoginPost(sess, form_email, form_password, form_role, now) ==
    LET email == Lower(Strip(form_email))
        password == Strip(form_password)
        role == Strip(form_role)
        request == [Request("login", sess) EXCEPT
                       !.form = Credentials(email, password, role)]
        refused ==
            /\ last' = [request EXCEPT
                           !.result = "Invalid credentials or wrong role selected."]
            /\ UNCHANGED <<users, assignments, submissions, seq_sub, uuids,
                           files, login_logs, session, inflight>>
    IN  IF LoginLookup(email, role) = {} THEN refused
        ELSE \E id \in LoginLookup(email, role) :
             LET verified == verify_password(password, users[id].password)
             IN  IF ~verified.valid THEN refused
                 ELSE /\ users' = (IF verified.should_upgrade
                                   THEN Upgrade(id, password) ELSE users)
                      /\ session' = SessionOf(id)
                      /\ login_logs' = LogLogin(id, now)
                      /\ last' = [request EXCEPT !.account = id, !.now = now,
                                                 !.result = "Welcome"]
                      /\ UNCHANGED <<assignments, submissions, seq_sub, uuids,
                                     files, inflight>>

(***************************************************************************)
(* GET /logout: logout                                                     *)
(***************************************************************************)
\* the session after session.clear()
LoggedOut(sess) == NoSession

LogoutGet(sess) ==
    /\ session' = LoggedOut(sess)
    /\ last' = [Request("logout", sess) EXCEPT
                   !.result = "Logged out successfully."]
    /\ UNCHANGED <<users, assignments, submissions, seq_sub, uuids, files,
                   login_logs, inflight>>

(***************************************************************************)
(* GET /dashboard: dashboard                                               *)
(***************************************************************************)
DashboardGet(sess) ==
    /\ last' = [Request("dashboard", sess) EXCEPT
                   !.result = IF login_required(sess, "") # "ok"
                              THEN login_required(sess, "")
                              ELSE IF sess.role = "faculty"
                                   THEN "redirect:faculty_dashboard"
                                   ELSE "redirect:student_dashboard"]
    /\ UNCHANGED <<users, assignments, submissions, seq_sub, uuids, files,
                   login_logs, session, inflight>>

(***************************************************************************)
(* POST /register: register                                                *)
(***************************************************************************)
\* the next id of an AUTOINCREMENT table no row of which is ever deleted
NextId(table) ==
    IF DOMAIN table = {} THEN 1
    ELSE 1 + CHOOSE i \in DOMAIN table : \A j \in DOMAIN table : j <= i

\* the email of the form without .lower()
RegisterEmail_AsTyped(form_email) == Strip(form_email)

\* request.form.get("email", "").strip().lower()
RegisterEmail(form_email) == Lower(Strip(form_email))

\* the fields of the registration form as the handler reads them, and the
\* email as the form sent it
Registration(name, email, password, form_email) ==
    [name |-> name, email |-> email, password |-> password,
     form_email |-> form_email]

RegisterPost(sess, form_name, form_email, form_password) ==
    LET name == Strip(form_name)
        email == RegisterEmail(form_email)
        password == Strip(form_password)
        request == [Request("register", sess) EXCEPT
                       !.form = Registration(name, email, password, form_email)]
    IN  IF name = <<>> \/ email = <<>> \/ password = <<>>
        THEN /\ last' = [request EXCEPT !.result = "All fields are required."]
             /\ UNCHANGED <<users, assignments, submissions, seq_sub, uuids,
                            files, login_logs, session, inflight>>
        ELSE IF \E i \in DOMAIN users : users[i].email = email
        THEN \* sqlite3.IntegrityError: email TEXT NOT NULL UNIQUE
             /\ last' = [request EXCEPT !.result = "Email already exists."]
             /\ UNCHANGED <<users, assignments, submissions, seq_sub, uuids,
                            files, login_logs, session, inflight>>
        ELSE /\ users' = NextId(users) :>
                             [name |-> name, email |-> email,
                              password |-> hash_password(password),
                              role |-> "student"]
                         @@ users
             /\ last' = [request EXCEPT
                            !.account = NextId(users),
                            !.result = "Student account created. Login now."]
             /\ UNCHANGED <<assignments, submissions, seq_sub, uuids, files,
                            login_logs, session, inflight>>

(***************************************************************************)
(* POST /faculty, form_type = assignment: faculty_dashboard                *)
(***************************************************************************)
\* the title check that never finds the title taken
TitleTaken_Never(title) == FALSE

\* title TEXT NOT NULL UNIQUE
TitleTaken(title) == \E i \in DOMAIN assignments : assignments[i].title = title

\* the fields of the assignment form as the handler reads them
NewAssignment(title, description, deadline) ==
    [title |-> title, description |-> description, deadline |-> deadline]

CreateCheck(sess, title, description, deadline) ==
    IF login_required(sess, "faculty") # "ok" THEN login_required(sess, "faculty")
    ELSE IF title = <<>> \/ description = <<>> \/ deadline = <<>>
         THEN "All assignment fields are required."
    ELSE IF ~strptime(deadline, FmtLocal).ok THEN "Deadline format is invalid."
    ELSE IF TitleTaken(title) THEN "Assignment title already exists."
    ELSE "ok"

CreatePost(sess, form_title, form_description, form_deadline) ==
    LET title == Strip(form_title)
        description == Strip(form_description)
        deadline == Strip(form_deadline)
        check == CreateCheck(sess, title, description, deadline)
        request == [Request("create", sess) EXCEPT
                       !.form = NewAssignment(title, description, deadline)]
    IN  IF check # "ok"
        THEN /\ last' = [request EXCEPT !.result = check]
             /\ UNCHANGED <<users, assignments, submissions, seq_sub, uuids,
                            files, login_logs, session, inflight>>
        ELSE LET normalized_deadline == strftime(strptime(deadline, FmtLocal))
             IN  /\ assignments' =
                        NextId(assignments) :>
                            NewAssignment(title, description, normalized_deadline)
                        @@ assignments
                 /\ last' = [request EXCEPT
                                !.id = NextId(assignments),
                                !.result = "Assignment created successfully."]
                 /\ UNCHANGED <<users, submissions, seq_sub, uuids, files,
                                login_logs, session, inflight>>

\* SELECT id, title, description, deadline FROM assignments (the ORDER BY
\* does not change which rows are listed)
ListAssignments ==
    {[id |-> i, title |-> assignments[i].title,
      description |-> assignments[i].description,
      deadline |-> assignments[i].deadline] : i \in DOMAIN assignments}

(***************************************************************************)
(* The upload directory is an ordinary directory: a file of it can be      *)
(* removed behind the portal's back, which is what the handlers' except    *)
(* FileNotFoundError branches allow for.                                   *)
(***************************************************************************)
FileLost(filename) ==
    /\ filename \in files
    /\ files' = files \ {filename}
    /\ last' = NoRequest
    /\ UNCHANGED <<users, assignments, submissions, seq_sub, uuids>>

(***************************************************************************)
(* The requests the model sends.  A request the decorator turns away is    *)
(* sent with one form only: the handler never reads it.                    *)
(***************************************************************************)
PdfBytes == <<"%", "P", "D", "F", "-">>

GoodNames ==
    {<<"a", ".", "P", "D", "F">>, <<".", ".", "/", "a", ".", "P", "D", "F">>}

BadUploads ==
    {NoFile,
     Upload(<<>>, PdfBytes),
     Upload(<<"a", ".", "t", "x", "t">>, PdfBytes),
     Upload(<<"p", "d", "f">>, PdfBytes),
     Upload(<<"a", ".", "p", "d", "f">>, <<"%", "P", "D">>),
     Upload(<<"a", ".", "p", "d", "f">>, <<"%", "P", "N", "G">>)}

SubmitForms(sess) ==
    IF login_required(sess, "student") # "ok" THEN {Form(<<"1">>, NoFile)}
    ELSE {Form(a, Upload(f, PdfBytes)) :
              a \in {<<"1">>, <<" ", "2">>}, f \in GoodNames}
         \cup {Form(a, Upload(<<"a", ".", "P", "D", "F">>, PdfBytes)) :
                   a \in {<<>>, <<" ">>, <<"9">>}}
         \cup {Form(<<"1">>, file) : file \in BadUploads}

Reviewing(submission_id, action, comment) ==
    [submission_id |-> submission_id, action |-> action, comment |-> comment]

FormComments == {<<>>, <<"ok">>, <<" ", "ok", " ">>}

ReviewForms(sess) ==
    IF login_required(sess, "faculty") # "ok"
    THEN {Reviewing(<<"1">>, Approved, <<>>)}
    ELSE {Reviewing(id, action, comment) :
              id \in {<<"1">>, <<" ", "2">>},
              action \in {Approved, <<" ", "Rejected", " ">>},
              comment \in FormComments}
         \cup {Reviewing(<<"9">>, Approved, <<>>),
               Reviewing(<<"1">>, Pending, <<"ok">>),
               Reviewing(<<"1">>, <<>>, <<"ok">>)}

DeleteIds(sess) ==
    IF login_required(sess, "student") # "ok" THEN {1} ELSE 1..MaxSubs

\* the sanitized names of the uploads
SafeNames == {secure_filename(f) : f \in GoodNames}

\* file names a download request asks for: every name the portal can have
\* given to an upload for the first assignment so far, and names it never gave
\* (uuid 0)
RequestedFiles ==
    {FinalName(student_id, assignment_id, uuid, safe_name) :
        student_id \in {2, 3}, assignment_id \in {<<"1">>},
        uuid \in 0..uuids, safe_name \in SafeNames}

\* init_db() on a new portal.db
Init ==
    /\ users = SeedUsers
    /\ assignments = SeedAssignments
    /\ submissions = <<>>
    /\ seq_sub = 0
    /\ uuids = 0
    /\ files = {}
    /\ login_logs = <<>>
    /\ session = NoSession
    /\ inflight = [t \in Threads |-> Idle]
    /\ last = NoRequest

\* init_db() on a portal.db that already holds a second faculty member
InitFaculty ==
    /\ users = SeedUsers @@ LegacyUsers
    /\ assignments = SeedAssignments
    /\ submissions = <<>>
    /\ seq_sub = 0
    /\ uuids = 0
    /\ files = {}
    /\ login_logs = <<>>
    /\ session = NoSession
    /\ inflight = [t \in Threads |-> Idle]
    /\ last = NoRequest

Submit ==
    /\ seq_sub < MaxSubs
    /\ \E sess \in Sessions : \E form \in SubmitForms(sess) :
           SubmitPost(sess, form.assignment_id, form.file, Noon)
    /\ UNCHANGED <<login_logs, session, inflight>>

Delete ==
    /\ \E sess \in Sessions : \E id \in DeleteIds(sess) : DeletePost(sess, id)
    /\ UNCHANGED <<login_logs, session, inflight>>

Review ==
    /\ \E sess \in Sessions : \E form \in ReviewForms(sess) :
           ReviewPost(sess, form.submission_id, form.action, form.comment, Noon)
    /\ UNCHANGED <<login_logs, session, inflight>>

Download ==
    /\ \E sess \in Sessions, filename \in RequestedFiles : DownloadGet(sess, filename)
    /\ UNCHANGED <<login_logs, session, inflight>>

Lose ==
    /\ \E filename \in files : FileLost(filename)
    /\ UNCHANGED <<login_logs, session, inflight>>

\* the requests that write the ledger
NextApp == Submit \/ Delete \/ Review

Spec == Init /\ [][NextApp]_vars

\* one student's uploads for one assignment
SubmitOne ==
    /\ seq_sub < MaxSubs
    /\ \E f \in GoodNames :
           SubmitPost(SessionOf(2), <<"1">>, Upload(f, PdfBytes), Noon)
    /\ UNCHANGED <<login_logs, session, inflight>>

\* reviews at either reading of the clock
ReviewLater ==
    /\ \E sess \in Sessions, now \in Times : \E form \in ReviewForms(sess) :
           ReviewPost(sess, form.submission_id, form.action, form.comment, now)
    /\ UNCHANGED <<login_logs, session, inflight>>

\* two faculty members reviewing one student's submissions, at two times
NextFaculty == SubmitOne \/ Delete \/ ReviewLater

SpecFaculty == InitFaculty /\ [][NextFaculty]_vars

\* reviews that approve without a comment
ReviewPlain ==
    /\ \E sess \in Sessions, id \in {<<"1">>, <<"2">>} :
           ReviewPost(sess, id, Approved, <<>>, Noon)
    /\ UNCHANGED <<login_logs, session, inflight>>

\* uploads of a good file for the first assignment
SubmitPlain ==
    /\ seq_sub < MaxSubs
    /\ \E sess \in Sessions :
           SubmitPost(sess, <<"1">>, Upload(<<"a", ".", "P", "D", "F">>, PdfBytes), Noon)
    /\ UNCHANGED <<login_logs, session, inflight>>

\* downloads, and uploaded files lost, among uploads, deletions and reviews
NextEnv == SubmitPlain \/ Delete \/ ReviewPlain \/ Download \/ Lose

SpecEnv == Init /\ [][NextEnv]_vars

\* the login forms the model sends
LoginEmails ==
    {<<"arun@student.edu">>, <<" ", "Arun@Student.edu", " ">>,
     <<"OLD@college.edu">>, <<"nobody@college.edu">>}

LoginPasswords ==
    {<<"student123">>, <<"oldpass">>, <<" ", "oldpass", " ">>, <<"wrong">>,
     <<"scrypt:", "student123">>}

LoginRoles == {<<"student">>, <<"faculty">>, <<" ", "faculty">>}

Login ==
    /\ Len(login_logs) < MaxLogins
    /\ \E form_email \in LoginEmails, form_password \in LoginPasswords,
          form_role \in LoginRoles :
           LoginPost(session, form_email, form_password, form_role, Noon)

Logout == LogoutGet(session)

Dashboard == DashboardGet(session)

\* one browser logging in and out, among users one of whom has a password in
\* plain text
NextLogin == Login \/ Logout \/ Dashboard

SpecLogin == InitFaculty /\ [][NextLogin]_vars

\* the forms of one browser that logs in, works and logs out
BrowserLogins ==
    {Credentials(<<"arun@student.edu">>, <<"student123">>, <<"student">>),
     Credentials(<<"faculty@college.edu">>, <<"faculty123">>, <<"faculty">>),
     Credentials(<<"meena@student.edu">>, <<"student123">>, <<"student">>),
     Credentials(<<"arun@student.edu">>, <<"wrong">>, <<"student">>)}

LocalDeadlines ==
    {<<"2026", "-", "03", "-", "20", "T", "10", ":", "00">>,
     <<" ", "2026", "-", "3", "-", "20", "T", "10", ":", "00">>,
     <<"2026", "-", "13", "-", "20", "T", "10", ":", "00">>,
     <<"2026", "-", "02", "-", "30", "T", "10", ":", "00">>,
     <<"2026", "-", "03", "-", "20", " ", "10", ":", "00">>}

CreateForms ==
    {NewAssignment(title, <<"Read chapter 3.">>, deadline) :
        title \in {<<"Networks - Lab">>, <<" ", "Networks - Lab", " ">>,
                   <<"Compilers - Quiz">>, <<"Data Structures - Week 1">>},
        deadline \in LocalDeadlines}
    \cup {NewAssignment(<<" ">>, <<"Read chapter 3.">>,
                        <<"2026", "-", "03", "-", "20", "T", "10", ":", "00">>),
          NewAssignment(<<"Networks - Lab">>, <<>>,
                        <<"2026", "-", "03", "-", "20", "T", "10", ":", "00">>),
          NewAssignment(<<"Networks - Lab">>, <<"Read chapter 3.">>, <<>>)}

BrowserLogin ==
    /\ Len(login_logs) < MaxLogins
    /\ \E form \in BrowserLogins :
           LoginPost(session, form.email, form.password, form.role, Noon)

BrowserSubmit ==
    /\ seq_sub < MaxSubs
    /\ SubmitPost(session, <<"1">>, Upload(<<"a", ".", "P", "D", "F">>, PdfBytes),
                  Noon)
    /\ UNCHANGED <<login_logs, session, inflight>>

BrowserDelete ==
    /\ \E id \in 1..MaxSubs : DeletePost(session, id)
    /\ UNCHANGED <<login_logs, session, inflight>>

BrowserReview ==
    /\ \E id \in {<<"1">>, <<"2">>} : ReviewPost(session, id, Approved, <<>>, Noon)
    /\ UNCHANGED <<login_logs, session, inflight>>

BrowserCreate ==
    \E form \in (IF login_required(session, "faculty") # "ok"
                  THEN {NewAssignment(<<"Networks - Lab">>, <<"Read chapter 3.">>,
                            <<"2026", "-", "03", "-", "20", "T", "10", ":", "00">>)}
                  ELSE CreateForms) :
        CreatePost(session, form.title, form.description, form.deadline)

BrowserDownload ==
    /\ \E filename \in RequestedFiles : DownloadGet(session, filename)
    /\ UNCHANGED <<login_logs, session, inflight>>

BrowserList == StudentGet(session)

\* every request of the portal but registration, sent by one browser with the
\* session cookie it holds
NextBrowser ==
    \/ BrowserLogin \/ Logout \/ Dashboard \/ BrowserSubmit \/ BrowserDelete
    \/ BrowserReview \/ BrowserCreate \/ BrowserDownload \/ BrowserList

SpecBrowser == Init /\ [][NextBrowser]_vars

\* the registration forms the model sends
RegisterForms ==
    {Registration(name, <<>>, password, form_email) :
        name \in {<<"New Student">>, <<" ">>},
        password \in {<<" ", "secret">>, <<>>},
        form_email \in {<<"New@Student.edu">>, <<" ", "new@student.edu">>,
                        <<"Arun@Student.edu">>, <<"arun@student.edu">>,
                        <<"late@student.edu">>, <<" ">>}}

Register ==
    \E form \in RegisterForms :
        RegisterPost(session, form.name, form.form_email, form.password)

\* logins of the users who registered
RegisteredLogin ==
    /\ Len(login_logs) < MaxLogins
    /\ \E form_email \in {<<"new@student.edu">>, <<"late@student.edu">>} :
           LoginPost(session, form_email, <<"secret">>, <<"student">>, Noon)

\* registration, and the login of the new users
NextRegister == Register \/ RegisteredLogin \/ Logout

SpecRegister == Init /\ [][NextRegister]_vars

\* texts of deadlines a portal.db can hold: the seed's, one with seconds, a
\* later day, and texts no format of parse_dt fits
DeadlineTexts ==
    {<<"2026", "-", "03", "-", "05", " ", "23", ":", "59">>,
     <<"2026", "-", "03", "-", "05", " ", "23", ":", "59", ":", "00">>,
     <<"2026", "-", "03", "-", "10", " ", "23", ":", "59">>,
     <<"2026", "-", "03", "-", "05", "T", "23", ":", "59">>,
     <<"2026", "-", "13", "-", "05", " ", "23", ":", "59">>,
     <<>>}

\* texts of submission times
StampTexts ==
    {<<"2026", "-", "03", "-", "05", " ", "23", ":", "59", ":", "00">>,
     <<"2026", "-", "03", "-", "05", " ", "23", ":", "59", ":", "01">>,
     <<"2026", "-", "03", "-", "05", " ", "12", ":", "00", ":", "00">>,
     <<"2026", "-", "03", "-", "10", " ", "00", ":", "00", ":", "01">>,
     <<"2026", "-", "03", "-", "10", " ", "23", ":", "59">>,
     <<"2026", "-", "02", "-", "30", " ", "12", ":", "00", ":", "00">>,
     <<"2026", "-", "03", "-", "05", " ", "24", ":", "00", ":", "00">>,
     <<"yesterday">>,
     <<>>}

\* a portal.db with one assignment and one submission of the first student
\* for it, whose deadline and submission time are any of the texts
InitLate ==
    /\ users = SeedUsers
    /\ \E deadline \in DeadlineTexts :
           assignments = 1 :> [SeedAssignments[1] EXCEPT !.deadline = deadline]
    /\ \E submitted_at \in StampTexts :
           submissions =
               1 :> NewSubmission(2, 1, FinalName(2, <<"1">>, 1, <<"a", ".", "P", "D", "F">>),
                                  submitted_at)
    /\ seq_sub = 1
    /\ uuids = 1
    /\ files = {FinalName(2, <<"1">>, 1, <<"a", ".", "P", "D", "F">>)}
    /\ login_logs = <<>>
    /\ session = NoSession
    /\ inflight = [t \in Threads |-> Idle]
    /\ last = NoRequest

\* the students open their dashboards
List == \E sess \in Sessions : StudentGet(sess)

\* the late flags of the listing, over the texts of deadlines and times
NextLate == List \/ Review

SpecLate == InitLate /\ [][NextLate]_vars

\* the forms of one browser that registers, logs in, works and logs out
AccountForms ==
    {Registration(<<"New Student">>, <<>>, <<"secret">>, form_email) :
        form_email \in {<<"New@Student.edu">>, <<"OLD@college.edu">>}}

AccountLogins ==
    {Credentials(<<"OLD@college.edu">>, <<"oldpass">>, <<"faculty">>),
     Credentials(<<"new@student.edu">>, <<"secret">>, <<"student">>),
     Credentials(<<"new@student.edu">>, <<"secret">>, <<"faculty">>),
     Credentials(<<"arun@student.edu">>, <<"student123">>, <<"student">>)}

AccountRegister ==
    \E form \in AccountForms :
        RegisterPost(session, form.name, form.form_email, form.password)

AccountLogin ==
    /\ Len(login_logs) < MaxLogins
    /\ \E form \in AccountLogins :
           LoginPost(session, form.email, form.password, form.role, Noon)

\* registration, login, logout and the requests of the portal, sent by one
\* browser, among users one of whom has a password in plain text
NextAccounts ==
    \/ AccountRegister \/ AccountLogin \/ Logout \/ Dashboard
    \/ BrowserSubmit \/ BrowserDelete \/ BrowserReview

SpecAccounts == InitFaculty /\ [][NextAccounts]_vars

\* the forms of the uploads whose statements interleave
RaceForms ==
    {Form(a, Upload(<<"a", ".", "P", "D", "F">>, PdfBytes)) :
        a \in {<<"1">>, <<>>}}

\* the uploads that have not yet saved their file
Unsaved == {t \in Threads : inflight[t].pc \in {"lookup", "remove", "delete", "save"}}

Begin ==
    /\ uuids + Cardinality(Unsaved) < MaxSubs + 1
    /\ \E t \in Threads : \E sess \in Sessions : \E form \in RaceForms :
           SubmitBegin(t, sess, form.assignment_id, form.file)

Lookup == \E t \in Threads : SubmitLookup(t)

RemoveFile == \E t \in Threads : SubmitRemove(t)

DeleteOld == \E t \in Threads : SubmitDelete(t)

Save == \E t \in Threads : SubmitSave(t)

Insert == \E t \in Threads : SubmitInsert(t, Noon)

Commit == \E t \in Threads : SubmitCommit(t)

Locked == \E t \in Threads : SubmitLocked(t)

\* two threads of the server handling uploads, a statement at a time
NextRace ==
    \/ Begin
    \/ Lookup
    \/ RemoveFile
    \/ DeleteOld
    \/ Save
    \/ Insert
    \/ Commit
    \/ Locked

SpecRace == Init /\ [][NextRace]_vars

(***************************************************************************)
(* Properties                                                              *)
(***************************************************************************)
Rows == DOMAIN submissions

Reviewed == {Approved, Rejected}

IsFaculty(id) == id \in DOMAIN users /\ users[id].role = "faculty"

IsStudent(id) == id \in DOMAIN users /\ users[id].role = "student"

SamePair(i, j) ==
    /\ submissions[i].student_id = submissions[j].student_id
    /\ submissions[i].assignment_id = submissions[j].assignment_id

Submitted == "Assignment submitted successfully."

ReviewedOk == {"Submission approved successfully.", "Submission rejected successfully."}

\* C1: in every reachable state the ledger holds at most one Pending
\* submission for each (student, assignment) pair.
C1_OnePendingPerPair ==
    \A i \in Rows, j \in Rows :
        (SamePair(i, j) /\ submissions[i].status = Pending
                        /\ submissions[j].status = Pending) => i = j

\* C1's case: an upload was accepted for a pair that already has a reviewed
\* submission, and the two rows stand side by side.
C1_Witness ==
    /\ last.op = "submit" /\ last.result = Submitted
    /\ \E j \in Rows : /\ j # last.id
                       /\ SamePair(j, last.id)
                       /\ submissions[j].status \in Reviewed
    /\ submissions[last.id].status = Pending

\* C2 as stated: a row whose status is Approved or Rejected keeps that status
\* in every step, and a status changes only from Pending to Approved or to
\* Rejected.
C2_Terminal ==
    [][\A i \in Rows :
          /\ submissions[i].status \in Reviewed =>
                 (i \in DOMAIN submissions'
                     /\ submissions'[i].status = submissions[i].status)
          /\ (i \in DOMAIN submissions'
                  /\ submissions'[i].status # submissions[i].status) =>
                 (submissions[i].status = Pending
                     /\ submissions'[i].status \in Reviewed)]_vars

\* C2 amended: a reviewed row stays in the ledger with a status that is
\* Approved or Rejected (it never returns to Pending), submit and delete never
\* change its status, and every change of a status is made by a review of that
\* row and leads to Approved or Rejected - from Pending, or from the other
\* reviewed status.
C2_ReviewedStaysReviewed ==
    [][\A i \in Rows :
          /\ submissions[i].status \in Reviewed =>
                 (i \in DOMAIN submissions'
                     /\ submissions'[i].status \in Reviewed)
          /\ (i \in DOMAIN submissions'
                  /\ submissions'[i].status # submissions[i].status) =>
                 (/\ submissions'[i].status \in Reviewed
                  /\ last'.op = "review" /\ last'.id = i
                  /\ last'.result \in ReviewedOk)]_vars

\* C2's case: a review has moved an Approved row to Rejected.
C2_Witness ==
    /\ last.op = "review" /\ last.result \in ReviewedOk
    /\ last.was = Approved
    /\ submissions[last.id].status = Rejected

\* C3: a review by a faculty member, with an action that is Approved or
\* Rejected, of a submission that is already Approved or Rejected (whoever
\* reviewed it) succeeds and sets status, comment, reviewer and review
\* timestamp to the request's action, comment, user and clock reading.  Action
\* and comment are the fields as the handler reads them.
C3_ReReviewAccepted ==
    [][(/\ last'.op = "review"
        /\ IsFaculty(last'.user)
        /\ last'.action \in Reviewed
        /\ last'.id \in Rows
        /\ submissions[last'.id].status \in Reviewed)
       => (/\ last'.result = (IF last'.action = Approved
                              THEN "Submission approved successfully."
                              ELSE "Submission rejected successfully.")
           /\ last'.id \in DOMAIN submissions'
           /\ submissions'[last'.id].status = last'.action
           /\ submissions'[last'.id].faculty_comment = last'.comment
           /\ submissions'[last'.id].reviewed_by = last'.user
           /\ last'.now \in Times
           /\ submissions'[last'.id].reviewed_at = last'.now)]_vars

\* C3's case: a faculty member has reviewed a submission that another faculty
\* member had reviewed, and the row carries the later review.
C3_Witness ==
    /\ last.op = "review" /\ last.result \in ReviewedOk
    /\ last.was \in Reviewed /\ last.was # last.action
    /\ last.user = 5
    /\ submissions[last.id].reviewed_by = 5
    /\ submissions[last.id].status = last.action

\* the Pending rows of the ledger `table` for a student and an assignment
PendingFor(table, student_id, assignment_id) ==
    {i \in DOMAIN table : /\ table[i].student_id = student_id
                          /\ table[i].assignment_id = assignment_id
                          /\ table[i].status = Pending}

\* the listing of the student who sent the last upload shows exactly one
\* Pending row for the assignment of that upload, and it is the new row
OnePendingListed ==
    LET new == submissions[last.id]
        listed == {r \in ListForStudent(last.user) :
                      /\ r.status = Pending
                      /\ r.title = assignments[new.assignment_id].title}
    IN  /\ new.student_id = last.user
        /\ Cardinality(listed) = 1
        /\ \A r \in listed : r.id = last.id /\ r.file_name = new.file_name

\* C4: after a successful submit by student S for assignment A, S's listing
\* holds exactly one Pending row for A; and when a Pending row for (S, A)
\* existed before the submit, the ledger has as many rows as before, the old
\* row and the old file are gone, and the new file is in the upload directory
\* and is the file of the single Pending row.
C4_ResubmitReplaces ==
    [][(last'.op = "submit" /\ last'.result = Submitted)
       => (/\ last'.id \in DOMAIN submissions'
           /\ OnePendingListed'
           /\ LET new == submissions'[last'.id]
                  olds == PendingFor(submissions, new.student_id, new.assignment_id)
              IN  olds # {} =>
                    /\ Cardinality(DOMAIN submissions') = Cardinality(Rows)
                    /\ \A i \in olds : /\ i \notin DOMAIN submissions'
                                       /\ submissions[i].file_name \notin files'
                    /\ new.file_name \in files'
                    /\ PendingFor(submissions', new.student_id, new.assignment_id)
                           = {last'.id})]_vars

\* C4's case: a second upload for the same pair has replaced a Pending row
\* whose file was still in the upload directory.
C4_Witness ==
    /\ last.op = "submit" /\ last.result = Submitted
    /\ last.old # NoId /\ ~last.missing
    /\ last.old \notin Rows
    /\ Cardinality(Rows) = 1
    /\ files = {submissions[last.id].file_name}

\* C5: a successful submit for (S, A) when no row of (S, A) is Pending (the
\* existing ones are all Approved or Rejected) adds exactly one row, which is
\* Pending, and one file, and leaves every existing row and every existing
\* file as it was.
C5_ReviewedRowsKept ==
    [][(/\ last'.op = "submit" /\ last'.result = Submitted
        /\ last'.id \in DOMAIN submissions'
        /\ PendingFor(submissions, submissions'[last'.id].student_id,
                      submissions'[last'.id].assignment_id) = {})
       => (/\ last'.id \notin Rows
           /\ DOMAIN submissions' = Rows \cup {last'.id}
           /\ \A i \in Rows : submissions'[i] = submissions[i]
           /\ submissions'[last'.id].status = Pending
           /\ submissions'[last'.id].file_name \notin files
           /\ files' = files \cup {submissions'[last'.id].file_name})]_vars

\* C5's case: an upload for a pair whose earlier submission was reviewed: the
\* reviewed row and its file are still there, next to the new Pending row.
C5_Witness ==
    /\ last.op = "submit" /\ last.result = Submitted /\ last.old = NoId
    /\ \E j \in Rows : /\ j # last.id
                       /\ SamePair(j, last.id)
                       /\ submissions[j].status \in Reviewed
                       /\ submissions[j].file_name \in files
    /\ submissions[last.id].file_name \in files
    /\ Cardinality(Rows) = 2

\* the name ends in a dot followed by pdf, in any case of the letters
HasPdfExtension(name) ==
    /\ Len(name) >= 4
    /\ name[Len(name) - 3] = "."
    /\ name[Len(name) - 2] \in {"p", "P"}
    /\ name[Len(name) - 1] \in {"d", "D"}
    /\ name[Len(name)] \in {"f", "F"}

\* the defects of an upload form that C6 lists
Defective(form) ==
    \/ \A k \in DOMAIN form.assignment_id : form.assignment_id[k] \in Whitespace
    \/ ~form.file.present
    \/ form.file.filename = <<>>
    \/ ~HasPdfExtension(form.file.filename)
    \/ Len(form.file.content) < 4
    \/ SubSeq(form.file.content, 1, 4) # <<"%", "P", "D", "F">>
    \/ SqlInt(Strip(form.assignment_id)) \notin DOMAIN assignments

\* C6: a submit request with a missing assignment id, a missing or empty
\* file, an extension other than .pdf, content that does not start with %PDF,
\* or an assignment id that does not resolve, fails; and a submit request that
\* fails leaves the ledger and the upload directory exactly as they were.
C6_FailedSubmitChangesNothing ==
    [][(last'.op = "submit")
       => (/\ Defective(last'.form) => last'.result # Submitted
           /\ last'.result # Submitted =>
                 UNCHANGED <<submissions, files, seq_sub, uuids>>)]_vars

\* C6's case: an upload named a.pdf whose content is not a PDF was refused
\* while the student had a Pending submission for the same assignment; the
\* row and its file are still there.
C6_Witness ==
    /\ last.op = "submit"
    /\ last.result = "Invalid file content. Please upload a valid PDF."
    /\ HasPdfExtension(last.form.file.filename)
    /\ \E i \in PendingFor(submissions, last.user,
                           SqlInt(Strip(last.form.assignment_id))) :
           submissions[i].file_name \in files

\* the request names a row the student of the request owns
OwnedByRequester(request) ==
    /\ request.id \in Rows
    /\ submissions[request.id].student_id = request.user

\* C7: a delete request by a student for an id that is no submission of that
\* student (no such row, or another student's row) fails with "Submission
\* not found."; for an own submission that is Approved or Rejected it fails
\* with "You can delete only pending submissions."; both leave the ledger
\* and the upload directory as they were.
C7_DeleteFailures ==
    [][(last'.op = "delete" /\ IsStudent(last'.user))
       => (/\ ~OwnedByRequester(last') =>
                 /\ last'.result = "Submission not found."
                 /\ UNCHANGED <<submissions, files, seq_sub>>
           /\ (OwnedByRequester(last')
                   /\ submissions[last'.id].status \in Reviewed) =>
                 /\ last'.result = "You can delete only pending submissions."
                 /\ UNCHANGED <<submissions, files, seq_sub>>)]_vars

\* C7's case: a student asked to delete another student's Pending submission
\* and was told it does not exist; the row and its file are still there.
C7_Witness ==
    /\ last.op = "delete" /\ IsStudent(last.user)
    /\ last.result = "Submission not found."
    /\ last.id \in Rows
    /\ submissions[last.id].student_id # last.user
    /\ submissions[last.id].status = Pending
    /\ submissions[last.id].file_name \in files

\* the sessions of logged-in users
UserSessions == Sessions \ {NoSession}

\* the file names of the ledger
LedgerNames == {submissions[i].file_name : i \in Rows}

\* every user's download request for the name is answered "File not found."
NotFoundForAll(filename) ==
    \A sess \in UserSessions : DownloadResult(sess, filename) = {"File not found."}

\* C8: a delete request by the owning student for a Pending submission
\* succeeds, whether its file is in the upload directory or not; afterwards
\* the row and the file are gone and a download request for the file's name
\* is answered "File not found." for every user.  So is every download
\* request of a user for a name that is not in the ledger, and a name the
\* portal gave earlier never comes (back) into the ledger.
C8_DeleteRemovesRowAndFile ==
    [][/\ (/\ last'.op = "delete" /\ IsStudent(last'.user)
           /\ OwnedByRequester(last')
           /\ submissions[last'.id].status = Pending)
          => (/\ last'.result = "Submission deleted."
              /\ last'.missing = (submissions[last'.id].file_name \notin files)
              /\ last'.id \notin DOMAIN submissions'
              /\ DOMAIN submissions' = Rows \ {last'.id}
              /\ submissions[last'.id].file_name \notin files'
              /\ \A filename \in {submissions[last'.id].file_name} :
                    NotFoundForAll(filename)')
       /\ (last'.op = "download" /\ last'.user \in DOMAIN users
               /\ last'.form \notin LedgerNames)
          => last'.result = "File not found."
       /\ \A i \in DOMAIN submissions' :
              submissions'[i].file_name \in RequestedFiles
                  => submissions'[i].file_name \in LedgerNames]_vars

\* C8's case: a student deleted an own Pending submission whose file had
\* already gone from the upload directory.
C8_Witness ==
    /\ last.op = "delete" /\ last.result = "Submission deleted."
    /\ last.was = Pending
    /\ last.missing
    /\ last.id \notin Rows

\* C9: a review request by a faculty member whose action is neither Approved
\* nor Rejected is answered "Invalid action.", one whose submission id is
\* unknown is answered "Submission not found.", and both change nothing; any
\* other review sets the status of the named submission to the action, its
\* reviewer to the faculty member and its review time to a non-empty value,
\* and changes no other submission, no other field that identifies the
\* submission, and no file.  The action is the field as the handler reads it.
C9_Review ==
    [][(last'.op = "review" /\ IsFaculty(last'.user))
       => (/\ last'.action \notin Reviewed =>
                 /\ last'.result = "Invalid action."
                 /\ UNCHANGED <<submissions, files, seq_sub>>
           /\ (last'.action \in Reviewed /\ last'.id \notin Rows) =>
                 /\ last'.result = "Submission not found."
                 /\ UNCHANGED <<submissions, files, seq_sub>>
           /\ (last'.action \in Reviewed /\ last'.id \in Rows) =>
                 /\ last'.result \in ReviewedOk
                 /\ DOMAIN submissions' = Rows
                 /\ submissions'[last'.id].status = last'.action
                 /\ submissions'[last'.id].reviewed_by = last'.user
                 /\ submissions'[last'.id].reviewed_at # <<>>
                 /\ submissions'[last'.id].student_id
                        = submissions[last'.id].student_id
                 /\ submissions'[last'.id].assignment_id
                        = submissions[last'.id].assignment_id
                 /\ submissions'[last'.id].file_name
                        = submissions[last'.id].file_name
                 /\ submissions'[last'.id].submitted_at
                        = submissions[last'.id].submitted_at
                 /\ \A j \in Rows \ {last'.id} :
                        submissions'[j] = submissions[j]
                 /\ UNCHANGED <<files, seq_sub>>)]_vars

\* C9's case: the faculty member reviewed one student's Pending submission
\* while another student's submission stood in the ledger, still Pending.
C9_Witness ==
    /\ last.op = "review" /\ last.result \in ReviewedOk
    /\ last.was = Pending
    /\ submissions[last.id].status = last.action
    /\ submissions[last.id].reviewed_by = last.user
    /\ \E j \in Rows :
           /\ submissions[j].student_id # submissions[last.id].student_id
           /\ submissions[j].status = Pending
           /\ submissions[j].reviewed_by = NULL

\* C10 as stated: after a successful review the stored comment is the
\* comment the form sent, character for character.
C10_Verbatim ==
    (last.op = "review" /\ last.result \in ReviewedOk)
        => submissions[last.id].faculty_comment = last.form_comment

\* `stored` is `sent` without its leading and trailing whitespace
Trimmed(sent, stored) ==
    /\ \E a \in 0..Len(sent) :
           /\ a + Len(stored) <= Len(sent)
           /\ \A k \in 1..a : sent[k] \in Whitespace
           /\ \A k \in 1..Len(stored) : sent[a + k] = stored[k]
           /\ \A k \in (a + Len(stored) + 1)..Len(sent) : sent[k] \in Whitespace
    /\ stored # <<>> => (stored[1] \notin Whitespace
                           /\ stored[Len(stored)] \notin Whitespace)

\* C10 amended: after a successful review the stored comment is the comment
\* the form sent without its leading and trailing whitespace; a comment that
\* has neither (the empty comment too) is stored as sent.
C10_StoredTrimmed ==
    (last.op = "review" /\ last.result \in ReviewedOk)
        => /\ Trimmed(last.form_comment, submissions[last.id].faculty_comment)
           /\ (last.form_comment = <<>>
                   \/ (last.form_comment[1] \notin Whitespace
                          /\ last.form_comment[Len(last.form_comment)]
                                 \notin Whitespace))
                 => submissions[last.id].faculty_comment = last.form_comment

\* C10's case: a review sent a comment with a leading and a trailing blank,
\* and the row holds the comment without them.
C10_Witness ==
    /\ last.op = "review" /\ last.result \in ReviewedOk
    /\ last.form_comment = <<" ", "ok", " ">>
    /\ submissions[last.id].faculty_comment = <<"ok">>

\* C11: a download request is served only when a ledger row holds the file
\* name and the requester is a faculty member or the student of that row; a
\* student asking for another student's file is answered "You are not allowed
\* to access this file."; a faculty member is served every file a row holds
\* (when it is in the upload directory); and a name no row holds is answered
\* "File not found." whatever the role.
C11_DownloadAccess ==
    [][(last'.op = "download" /\ last'.user \in DOMAIN users)
       => LET holders == {i \in Rows : submissions[i].file_name = last'.form}
          IN  /\ last'.result = "send_from_directory" =>
                    \E i \in holders :
                        \/ IsFaculty(last'.user)
                        \/ submissions[i].student_id = last'.user
              /\ (IsStudent(last'.user) /\ holders # {}
                      /\ \A i \in holders : submissions[i].student_id # last'.user)
                    => last'.result = "You are not allowed to access this file."
              /\ (IsFaculty(last'.user) /\ holders # {})
                    => last'.result = (IF last'.form \in files
                                       THEN "send_from_directory"
                                       ELSE "404 Not Found")
              /\ holders = {} => last'.result = "File not found."
              /\ UNCHANGED <<submissions, files, users, assignments>>]_vars

\* C11's case: a student asked for the file of another student's submission,
\* which is in the upload directory, and was refused.
C11_Witness ==
    /\ last.op = "download" /\ IsStudent(last.user)
    /\ last.result = "You are not allowed to access this file."
    /\ last.form \in files
    /\ \E i \in Rows : /\ submissions[i].file_name = last.form
                       /\ submissions[i].student_id # last.user

\* the stored credential is a tagged digest, not plain text
IsHashed(stored) == stored # <<>> /\ stored[1] \in {"pbkdf2:", "scrypt:"}

\* the password is the one the stored credential stands for
Correct(raw, stored) ==
    IF IsHashed(stored) THEN stored = <<stored[1]>> \o raw ELSE stored = raw

Refused == "Invalid credentials or wrong role selected."

\* the users row with the email of the login request
ByEmail(request) == {i \in DOMAIN users : users[i].email = request.form.email}

\* C13: a login with the password of the account but a role that is not the
\* account's, and a login with the account's role but a wrong password, are
\* both answered "Invalid credentials or wrong role selected.", and neither
\* changes the session, the stored credentials or the login log.
C13_WrongRoleIsWrongPassword ==
    [][(/\ last'.op = "login"
        /\ \E i \in ByEmail(last') :
              \/ (<<users[i].role>> # last'.form.role
                     /\ Correct(last'.form.password, users[i].password))
              \/ (<<users[i].role>> = last'.form.role
                     /\ ~Correct(last'.form.password, users[i].password)))
       => (/\ last'.result = Refused
           /\ last'.account = NoId
           /\ UNCHANGED <<users, login_logs, session>>)]_vars

\* C13's case: the legacy faculty member's own password was sent with the
\* role student, and the login was refused.
C13_Witness ==
    /\ last.op = "login" /\ last.result = Refused
    /\ last.form.role = <<"student">>
    /\ \E i \in ByEmail(last) : /\ users[i].role = "faculty"
                                /\ Correct(last.form.password, users[i].password)

\* C15: a login to an account whose stored credential is plain text succeeds
\* iff the password sent (as the handler reads it) equals the stored text;
\* after a success the stored credential is a digest that the same password
\* matches; a refused login leaves every stored credential as it was.
C15_LegacyUpgrade ==
    [][(last'.op = "login")
       => (/\ \A i \in ByEmail(last') :
                (<<users[i].role>> = last'.form.role /\ ~IsHashed(users[i].password))
                => (/\ (last'.result = "Welcome")
                           <=> (last'.form.password = users[i].password)
                    /\ last'.result = "Welcome" =>
                          /\ last'.account = i
                          /\ IsHashed(users'[i].password)
                          /\ Correct(last'.form.password, users'[i].password)
                          /\ verify_password(last'.form.password,
                                             users'[i].password).valid
                          /\ \A j \in DOMAIN users \ {i} : users'[j] = users[j])
           /\ last'.result # "Welcome" => users' = users)]_vars

\* C15's case: the legacy faculty member has logged in twice with the same
\* password, the second time against the digest the first login stored.
C15_Witness ==
    /\ last.op = "login" /\ last.result = "Welcome" /\ last.account = 5
    /\ IsHashed(users[5].password)
    /\ Len(login_logs) = 2
    /\ login_logs[1].user_id = 5 /\ login_logs[2].user_id = 5

\* the operations behind login_required
Protected ==
    {"submit", "delete", "review", "create", "download", "dashboard", "list"}

Denied == "Access denied for your role."

\* C12: a request for a protected operation that carries no session is sent
\* to the login page and changes neither the ledger, the registry of
\* assignments, the users nor the upload directory; logout leaves the browser
\* without a session, so this holds of every request after it; submit, delete
\* and the student's listing with a session that is not a student's, and
\* review and create with a session that is not a faculty member's, are
\* answered "Access denied for your role." and change nothing either.
C12_SessionRequired ==
    [][/\ (last'.op \in Protected /\ last'.user = NULL)
          => (/\ last'.result = "redirect:login"
              /\ UNCHANGED <<users, assignments, submissions, seq_sub, files,
                             login_logs>>)
       /\ (last'.op \in {"submit", "delete", "list"} /\ last'.user # NULL
              /\ ~IsStudent(last'.user))
          => (/\ last'.result = Denied
              /\ UNCHANGED <<users, assignments, submissions, seq_sub, files,
                             login_logs>>)
       /\ (last'.op \in {"review", "create"} /\ last'.user # NULL
              /\ ~IsFaculty(last'.user))
          => (/\ last'.result = Denied
              /\ UNCHANGED <<users, assignments, submissions, seq_sub, files,
                             login_logs>>)
       /\ last'.op = "logout" => session' = NoSession
       /\ (session = NoSession /\ last'.op \in Protected) => last'.user = NULL]_vars

\* C12's case: the browser logged in, a submission was made, the browser
\* logged out, and its request to delete the submission was sent to the login
\* page; the submission is still there.
C12_Witness ==
    /\ login_logs # <<>> /\ session = NoSession
    /\ last.op = "delete" /\ last.result = "redirect:login"
    /\ Rows # {}

\* C14: a successful login appends one entry to the login log, for the user
\* it logged in and with the reading of the clock; no other request, a
\* refused login included, changes the log; so the log before a step is a
\* prefix of the log after it.
C14_LogAppendOnly ==
    [][/\ (last'.op = "login" /\ last'.result = "Welcome")
          => (/\ last'.account \in DOMAIN users
              /\ users[last'.account].email = last'.form.email
              /\ session'.user_id = last'.account
              /\ login_logs' = Append(login_logs,
                                      [user_id |-> last'.account,
                                       login_time |-> last'.now])
              /\ last'.now # <<>>)
       /\ ~(last'.op = "login" /\ last'.result = "Welcome")
          => login_logs' = login_logs
       /\ Len(login_logs') >= Len(login_logs)
       /\ SubSeq(login_logs', 1, Len(login_logs)) = login_logs]_vars

\* C14's case: two users have logged in one after the other, and the log
\* holds the first login before the second.
C14_Witness ==
    /\ last.op = "login" /\ last.result = "Welcome"
    /\ Len(login_logs) = 2
    /\ login_logs[2].user_id = last.account
    /\ login_logs[1].user_id # last.account

\* two emails that are equal when compared without case
SameEmail(a, b) == Lower(Strip(a)) = Lower(Strip(b))

\* the text is empty or all whitespace
Blank(text) == \A k \in DOMAIN text : text[k] \in Whitespace

\* C16: a registration with a blank name, email or password is answered "All
\* fields are required."; one whose email, compared without case, is the
\* email of a user is answered "Email already exists."; both leave the users
\* as they were; any other registration adds exactly one user, a student with
\* that email; and no two users have emails that are equal without case.
C16_Register ==
    [][/\ (last'.op = "register")
          => LET f == last'.form
                 blank == f.name = <<>> \/ Blank(f.form_email) \/ f.password = <<>>
                 taken == \E i \in DOMAIN users :
                              SameEmail(users[i].email, f.form_email)
             IN  /\ blank => (/\ last'.result = "All fields are required."
                              /\ users' = users)
                 /\ (~blank /\ taken) => (/\ last'.result = "Email already exists."
                                          /\ users' = users)
                 /\ (~blank /\ ~taken)
                    => (/\ last'.result = "Student account created. Login now."
                        /\ last'.account \notin DOMAIN users
                        /\ DOMAIN users' = DOMAIN users \cup {last'.account}
                        /\ \A i \in DOMAIN users : users'[i] = users[i]
                        /\ users'[last'.account].role = "student"
                        /\ SameEmail(users'[last'.account].email, f.form_email))
       /\ \A i \in DOMAIN users', j \in DOMAIN users' :
              SameEmail(users'[i].email, users'[j].email) => i = j]_vars

\* C16's case: a registration with the email of a user, typed in another
\* case, was refused.
C16_Witness ==
    /\ last.op = "register" /\ last.result = "Email already exists."
    /\ last.form.form_email = <<"Arun@Student.edu">>
    /\ \E i \in DOMAIN users : users[i].email = <<"arun@student.edu">>
    /\ Cardinality(DOMAIN users) > Cardinality(DOMAIN SeedUsers)

\* C17: a create request of a faculty member with a title, a description and
\* a deadline that parses adds one assignment when no assignment has the
\* title, and the list then holds exactly one assignment with the title, with
\* the deadline sent; when an assignment has the title it is answered
\* "Assignment title already exists." and the registry is unchanged; and no
\* step changes or removes an assignment.
C17_Create ==
    [][/\ (last'.op = "create" /\ IsFaculty(last'.user))
          => LET f == last'.form
                 valid == /\ f.title # <<>> /\ f.description # <<>>
                          /\ strptime(f.deadline, FmtLocal).ok
                 taken == \E i \in DOMAIN assignments :
                              assignments[i].title = f.title
             IN  /\ (valid /\ ~taken)
                    => (/\ last'.result = "Assignment created successfully."
                        /\ Cardinality({a \in ListAssignments' :
                                           a.title = f.title}) = 1
                        /\ DOMAIN assignments' = DOMAIN assignments \cup {last'.id}
                        /\ last'.id \notin DOMAIN assignments
                        /\ assignments'[last'.id].description = f.description
                        /\ parse_dt(assignments'[last'.id].deadline)
                               = strptime(f.deadline, FmtLocal))
                 /\ (valid /\ taken)
                    => (/\ last'.result = "Assignment title already exists."
                        /\ assignments' = assignments)
                 /\ ~valid => assignments' = assignments
       /\ \A i \in DOMAIN assignments :
              i \in DOMAIN assignments' /\ assignments'[i] = assignments[i]]_vars

\* C17's case: a second create with the title of an assignment the faculty
\* member had created was refused, and the list holds the title once.
C17_Witness ==
    /\ last.op = "create"
    /\ last.result = "Assignment title already exists."
    /\ \E i \in DOMAIN assignments \ DOMAIN SeedAssignments :
           assignments[i].title = last.form.title
    /\ Cardinality({a \in ListAssignments : a.title = last.form.title}) = 1

\* the seconds of a datetime since the start of its year, months counted
\* as 31 days
SecondsInYear(dt) ==
    (((dt.month * 31 + dt.day) * 24 + dt.hour) * 60 + dt.minute) * 60 + dt.second

\* the first datetime is strictly after the second
StrictlyAfter(a, b) ==
    \/ a.year > b.year
    \/ (a.year = b.year /\ SecondsInYear(a) > SecondsInYear(b))

\* C18: every row of a student's listing has a late flag that is true iff
\* the deadline and the submission time both parse and the submission time
\* is strictly after the deadline; a submission at second :00 of the deadline
\* minute is not late, and one a second later is.
C18_LateFlag ==
    (last.op = "list" /\ last.result = "render_page")
    => /\ \A v \in last.form :
             v.late <=> (/\ parse_dt(v.row.deadline).ok
                         /\ parse_dt(v.row.submitted_at).ok
                         /\ StrictlyAfter(parse_dt(v.row.submitted_at),
                                          parse_dt(v.row.deadline)))
       /\ \A v \in last.form :
             (v.row.deadline = <<"2026", "-", "03", "-", "05", " ", "23", ":", "59">>)
             => /\ v.row.submitted_at = <<"2026", "-", "03", "-", "05", " ",
                                          "23", ":", "59", ":", "00">> => ~v.late
                /\ v.row.submitted_at = <<"2026", "-", "03", "-", "05", " ",
                                          "23", ":", "59", ":", "01">> => v.late
                /\ v.row.submitted_at = <<"yesterday">> => ~v.late
       /\ {v.row.id : v \in last.form}
              = {i \in Rows : submissions[i].student_id = last.user}

\* C18's case: the listing shows a submission made at second :00 of the
\* deadline's minute, not flagged late.
C18_Witness ==
    /\ last.op = "list" /\ last.result = "render_page"
    /\ \E v \in last.form :
          /\ v.row.deadline = <<"2026", "-", "03", "-", "05", " ", "23", ":", "59">>
          /\ v.row.submitted_at = <<"2026", "-", "03", "-", "05", " ",
                                    "23", ":", "59", ":", "00">>
          /\ ~v.late

\* the rows of the committed ledger that a step takes away
Gone == Rows \ DOMAIN submissions'

\* the rows of the committed ledger that a step adds
Added == DOMAIN submissions' \ Rows

\* C19: a resubmission is one transaction in the ledger: in every step of
\* every request, if the committed ledger (what every other request reads)
\* loses the old Pending row, then the same step adds the new Pending row of
\* the same student and assignment; no committed state lies between the two.
C19_ResubmitAtomic ==
    [][\A i \in Gone :
          /\ submissions[i].status = Pending
          /\ \E j \in Added :
                /\ submissions'[j].student_id = submissions[i].student_id
                /\ submissions'[j].assignment_id = submissions[i].assignment_id
                /\ submissions'[j].status = Pending
                /\ last'.id = j /\ last'.old = i]_vars

\* a resubmission has committed (the old row is gone, the new one is there)
\* while another upload of the same student was between its lookup, which
\* found the old row, and its own DELETE
C19_Witness ==
    /\ last.op = "submit" /\ last.result = Submitted
    /\ last.old # NoId /\ last.old \notin Rows /\ last.id \in Rows
    /\ \E t \in Threads : /\ inflight[t].pc \in {"remove", "delete"}
                          /\ inflight[t].old = last.old
                          /\ inflight[t].sess.user_id = last.user

\* C20: at most one Pending row per (student, assignment) in the committed
\* ledger, whatever the interleaving of the statements of concurrent uploads.
C20_OnePendingConcurrent ==
    \A student_id \in DOMAIN users : \A assignment_id \in DOMAIN assignments :
        Cardinality(PendingFor(submissions, student_id, assignment_id)) <= 1

\* C21: after any sequence of complete requests, handled one after another,
\* the ledger and the upload directory agree: the file of every row is in
\* the directory, every file of the directory is the file of exactly one
\* row, and no two rows have the same file name.
C21_LedgerMatchesFiles ==
    /\ \A i \in Rows : submissions[i].file_name \in files
    /\ \A f \in files : Cardinality(RowsOfFile(f)) = 1
    /\ \A i \in Rows : \A j \in Rows :
           submissions[i].file_name = submissions[j].file_name => i = j

\* an upload has replaced the student's Pending row: the ledger holds the new
\* row alone and the directory holds its file alone
C21_Witness ==
    /\ last.op = "submit" /\ last.result = Submitted
    /\ last.old # NoId /\ last.old \notin Rows
    /\ Rows = {last.id}
    /\ files = {submissions[last.id].file_name}

\* row i is reviewed and its file is in the upload directory
ReviewedWithFile(i) ==
    /\ i \in Rows
    /\ submissions[i].status \in Reviewed
    /\ submissions[i].file_name \in files

\* C22: a reviewed submission is never removed: no submit, delete or review
\* request takes away a row whose status is Approved or Rejected, makes it
\* Pending again, renames its file or removes its file from the upload
\* directory; the set of reviewed submissions only grows.
C22_ReviewedStays ==
    [][\A i \in Rows :
          submissions[i].status \in Reviewed =>
              /\ i \in DOMAIN submissions'
              /\ submissions'[i].status \in Reviewed
              /\ submissions'[i].file_name = submissions[i].file_name
              /\ submissions[i].file_name \in files =>
                     submissions[i].file_name \in files']_vars

\* the owner has asked to delete a reviewed row and has been refused, and
\* the row and its file are still there
C22_Witness ==
    /\ last.op = "delete"
    /\ last.was \in Reviewed
    /\ last.result = "You can delete only pending submissions."
    /\ ReviewedWithFile(last.id)
    /\ submissions[last.id].student_id = last.user

\* the review columns of row i hold the defaults of the schema
Unreviewed(i) ==
    /\ submissions[i].reviewed_by = NULL
    /\ submissions[i].reviewed_at = <<>>
    /\ submissions[i].faculty_comment = <<>>

\* C23: in every reachable state the review columns agree with the status: a
\* row is Pending exactly when its reviewer is null, its review timestamp is
\* empty and its faculty comment is empty; every Approved or Rejected row has
\* a review timestamp that is not empty and a reviewer who is a user with the
\* role faculty.
C23_ReviewMetadata ==
    \A i \in Rows :
        /\ submissions[i].status = Pending <=> Unreviewed(i)
        /\ submissions[i].status \in Reviewed =>
               /\ submissions[i].reviewed_at # <<>>
               /\ IsFaculty(submissions[i].reviewed_by)

\* the ledger holds a Pending row and a row approved without a comment
C23_Witness ==
    /\ \E i \in Rows : submissions[i].status = Pending /\ Unreviewed(i)
    /\ \E j \in Rows : /\ submissions[j].status = Approved
                       /\ submissions[j].faculty_comment = <<>>
                       /\ submissions[j].reviewed_at # <<>>
                       /\ IsFaculty(submissions[j].reviewed_by)

\* the rows, before or after a step, that belong to someone other than the
\* user of the request the step handles
RowsOfOthers ==
    {i \in Rows : submissions[i].student_id # last'.user}
    \cup {i \in DOMAIN submissions' : submissions'[i].student_id # last'.user}

\* C24: a submit or delete request touches the rows of the session's student
\* only: every row of another student is there before and after the request,
\* unchanged, no such row is created, and the file of such a row stays in the
\* upload directory if it was there.
C24_OwnRowsOnly ==
    [][last'.op \in {"submit", "delete"} =>
          \A i \in RowsOfOthers :
              /\ i \in Rows
              /\ i \in DOMAIN submissions'
              /\ submissions'[i] = submissions[i]
              /\ submissions[i].file_name \in files =>
                     submissions[i].file_name \in files']_vars

\* a student has uploaded for an assignment for which the ledger holds a
\* Pending row of another student: that row and its file are still there and
\* the upload replaced nothing
C24_Witness ==
    /\ last.op = "submit" /\ last.result = Submitted
    /\ IsStudent(last.user)
    /\ last.old = NoId
    /\ \E i \in Rows :
          /\ submissions[i].student_id # last.user
          /\ submissions[i].assignment_id = submissions[last.id].assignment_id
          /\ submissions[i].status = Pending
          /\ submissions[i].file_name \in files

\* a step leaves the name, the email and the role of every user as they are
SameIdentity ==
    \A id \in DOMAIN users :
        /\ id \in DOMAIN users'
        /\ users'[id].name = users[id].name
        /\ users'[id].email = users[id].email
        /\ users'[id].role = users[id].role

\* the session names a user and carries that user's stored role
SessionMatchesUser ==
    session # NoSession =>
        /\ session.user_id \in DOMAIN users
        /\ session.role = users[session.user_id].role

\* C25: no register, login, logout or portal request changes a user's name,
\* email or role or removes a user (the password alone may change), every
\* user a request creates is a student, and the session a request leaves
\* carries the stored role of its user.
C25_IdentityImmutable ==
    [][/\ SameIdentity
       /\ \A id \in DOMAIN users' \ DOMAIN users : users'[id].role = "student"
       /\ SessionMatchesUser']_vars

\* the faculty member whose password was stored in plain text has logged in
\* and has it hashed now, a student has registered, and the browser holds the
\* session of that student
C25_Witness ==
    /\ IsHashed(users[5].password)
    /\ users[5].role = "faculty"
    /\ \E id \in DOMAIN users \ DOMAIN (SeedUsers @@ LegacyUsers) :
          /\ users[id].role = "student"
          /\ session # NoSession
          /\ session.user_id = id
          /\ session.role = "student"

====
